---- MODULE Spec2Model ----
(***************************************************************************)
(* Model of fbi_crime_data_analysis_app.py: the cached loader load_data,   *)
(* the wide-to-long reshape (DataFrame.melt), the ranked view built by     *)
(* plot_bar_chart (sort_values descending, head(20)) and the view dispatch *)
(* of the dashboard script, which Streamlit re-runs top to bottom on every *)
(* navigation event.                                                       *)
(*                                                                         *)
(* A DataFrame is a record [columns, index, rows]: the column names, the   *)
(* row labels (read_csv and melt give 0..m-1) and the rows as tuples.      *)
(***************************************************************************)
EXTENDS Integers, Sequences, FiniteSets, TLC

VARIABLES
    fileState,     \* per table name: "ok", "missing" or "unreadable" on disk
    cache,         \* st.cache_data entry of load_data
    pc,            \* position of the current script run
    idx,           \* position of load_data's for loop in FileOrder
    building,      \* load_data's local dict `data`
    reads,         \* table names pd.read_csv was attempted on, in this call
    loads,         \* number of times the body of load_data was executed
    data,          \* module-level `data` of the current script run
    choice,        \* state of the sidebar radio widget
    selected_key,  \* module-level `selected_key` of the current script run
    errors,        \* st.error messages shown in the current run
    rendered,      \* charts and tables shown by the dispatch, in order
    warning,       \* whether st.warning of line 167 was shown
    failedOnce,    \* history: some call of load_data ended without a dict
    fn,            \* function under study: "none", "rank", "melt", "dispatch"
    arg,           \* its input
    res            \* its result; res.done is FALSE until it is applied

vars == <<fileState, cache, pc, idx, building, reads, loads, data, choice,
          selected_key, errors, rendered, warning, failedOnce, fn, arg, res>>

-----------------------------------------------------------------------------
(* Bounds of the model *)

\* most files that are not "ok" when the process starts
MaxBad == 3
\* most executions of load_data's body in one process
MaxLoads == 2
\* most rows of a table handed to plot_bar_chart
MaxRows == 22
\* counts of the ranked tables are taken modulo 1..MaxMod
MaxMod == 3
\* most columns of a wide table handed to melt
MaxCols == 3
\* largest cell value of a wide table handed to melt
MaxVal == 2

\* head(20) in plot_bar_chart
TopN == 20

-----------------------------------------------------------------------------
(* The fixed mappings of the script *)

\* keys of `files` in load_data, in insertion order
FileOrder ==
    << "offense_linked", "weapon_type", "victim_relationship", "location_type",
       "victim_ethnicity", "offender_ethnicity", "victim_race", "offender_race",
       "victim_sex", "offender_sex" >>

Keys == { FileOrder[i] : i \in 1..Len(FileOrder) }

\* values of `files` in load_data
FileName(key) ==
    CASE key = "offense_linked"      -> "Offense Linked to Another Offense_09-30-2025.csv"
      [] key = "weapon_type"         -> "Type of Weapon Involved by Offense_09-30-2025.csv"
      [] key = "victim_relationship" -> "Victim's Relationship to Offender_09-30-2025.csv"
      [] key = "location_type"       -> "Location Type_09-30-2025.csv"
      [] key = "victim_ethnicity"    -> "Victim ethnicity_09-30-2025.csv"
      [] key = "offender_ethnicity"  -> "Offender ethnicity_09-30-2025.csv"
      [] key = "victim_race"         -> "Victim race_09-30-2025.csv"
      [] key = "offender_race"       -> "Offender race_09-30-2025.csv"
      [] key = "victim_sex"          -> "Victim sex_09-30-2025.csv"
      [] key = "offender_sex"        -> "Offender sex_09-30-2025.csv"

\* the characters of a key of `files`
KeyChars(key) ==
    CASE key = "offense_linked" ->
           <<"o","f","f","e","n","s","e","_","l","i","n","k","e","d">>
      [] key = "weapon_type" ->
           <<"w","e","a","p","o","n","_","t","y","p","e">>
      [] key = "victim_relationship" ->
           <<"v","i","c","t","i","m","_","r","e","l","a","t","i","o","n","s","h","i","p">>
      [] key = "location_type" ->
           <<"l","o","c","a","t","i","o","n","_","t","y","p","e">>
      [] key = "victim_ethnicity" ->
           <<"v","i","c","t","i","m","_","e","t","h","n","i","c","i","t","y">>
      [] key = "offender_ethnicity" ->
           <<"o","f","f","e","n","d","e","r","_","e","t","h","n","i","c","i","t","y">>
      [] key = "victim_race" ->
           <<"v","i","c","t","i","m","_","r","a","c","e">>
      [] key = "offender_race" ->
           <<"o","f","f","e","n","d","e","r","_","r","a","c","e">>
      [] key = "victim_sex" ->
           <<"v","i","c","t","i","m","_","s","e","x">>
      [] key = "offender_sex" ->
           <<"o","f","f","e","n","d","e","r","_","s","e","x">>

\* Python's `sub in s` on strings
Contains(sub, s) ==
    \E i \in 0..(Len(s) - Len(sub)) :
        \A j \in 1..Len(sub) : s[i + j] = sub[j]

\* `"sex" in key` of load_data
IsSexKey(key) == Contains(<<"s","e","x">>, KeyChars(key))

\* keys of dataset_options, in insertion order (the radio's options)
DatasetLabels ==
    << "Offense Linked to Another Offense", "Type of Weapon Involved",
       "Victim's Relationship to Offender", "Location Type",
       "Victim Demographics", "Offender Demographics" >>

Labels == { DatasetLabels[i] : i \in 1..Len(DatasetLabels) }

\* dataset_options[selection]
dataset_options(selection) ==
    CASE selection = "Offense Linked to Another Offense" -> "offense_linked"
      [] selection = "Type of Weapon Involved"           -> "weapon_type"
      [] selection = "Victim's Relationship to Offender" -> "victim_relationship"
      [] selection = "Location Type"                     -> "location_type"
      [] selection = "Victim Demographics"               -> "victim_demographics"
      [] selection = "Offender Demographics"             -> "offender_demographics"

-----------------------------------------------------------------------------
(* DataFrames *)

Min(a, b) == IF a <= b THEN a ELSE b

RangeIndex(m) == [i \in 1..m |-> i - 1]

DataFrame(columns, rows) ==
    [columns |-> columns, index |-> RangeIndex(Len(rows)), rows |-> rows]

\* position of a column name in a frame's columns
ColIndex(df, name) == CHOOSE c \in 1..Len(df.columns) : df.columns[c] = name

\* the cells of one column, in row order
Column(df, name) == [r \in 1..Len(df.rows) |-> df.rows[r][ColIndex(df, name)]]

\* a variant that unpivots the columns from the last to the first
MeltReversed(df) ==
    LET n == Len(df.columns)
        m == Len(df.rows)
    IN  DataFrame(<<"Category", "Count">>,
                  [p \in 1..(n * m) |->
                      LET c == n - ((p - 1) \div m)
                          r == ((p - 1) % m) + 1
                      IN  <<df.columns[c], df.rows[r][c]>>])

\* df.melt(var_name="Category", value_name="Count"): no id_vars, so every
\* column is unpivoted, column by column, the rows of a column in row order
Melt(df) ==
    LET n == Len(df.columns)
        m == Len(df.rows)
    IN  DataFrame(<<"Category", "Count">>,
                  [p \in 1..(n * m) |->
                      LET c == ((p - 1) \div m) + 1
                          r == ((p - 1) % m) + 1
                      IN  <<df.columns[c], df.rows[r][c]>>])

\* the orders an unstable sort may leave rows of equal count in
TieOrders == {"input", "reversed"}

TieBefore(tie, i, j) == IF tie = "input" THEN i < j ELSE i > j

\* df.sort_values(by=by, ascending=False) with the default kind="quicksort",
\* which is not stable: `tie` is the order it leaves equal counts in
SortValuesDesc(df, by, tie) ==
    LET m == Len(df.rows)
        v == Column(df, by)
        Before(i, j) == v[i] > v[j] \/ (v[i] = v[j] /\ TieBefore(tie, i, j))
        Rank(i) == 1 + Cardinality({j \in 1..m : Before(j, i)})
        perm == [p \in 1..m |-> CHOOSE i \in 1..m : Rank(i) = p]
    IN  [columns |-> df.columns,
         index   |-> [p \in 1..m |-> df.index[perm[p]]],
         rows    |-> [p \in 1..m |-> df.rows[perm[p]]]]

\* df.head(n)
HeadRows(df, n) ==
    LET k == Min(n, Len(df.rows))
    IN  [columns |-> df.columns,
         index   |-> SubSeq(df.index, 1, k),
         rows    |-> SubSeq(df.rows, 1, k)]

\* a variant that keeps the first rows without sorting them
RankedViewUnsorted(df, tie) == HeadRows(df, TopN)

\* the frame plot_bar_chart charts and displays: line 86, with y="value"
RankedView(df, tie) == HeadRows(SortValuesDesc(df, "value", tie), TopN)


\* what a call of plot_bar_chart(df, ...) shows and what it leaves in the
\* caller's frame: sort_values and head return new frames, `df` is rebound
PlotBarChartInPlace(df, tie) ==
    [shown  |-> RankedView(df, tie),
     stored |-> SortValuesDesc(df, "value", tie)]

plot_bar_chart(df, tie) ==
    [shown |-> RankedView(df, tie), stored |-> df]

\* plot_pie_chart(df, title): the frame is charted and displayed as it is
plot_pie_chart(df) ==
    [shown |-> df, stored |-> df]

-----------------------------------------------------------------------------
(* The files and load_data *)

\* what pd.read_csv returns for each file of the data set
ReadCsv(key) ==
    CASE key = "offense_linked" ->
           DataFrame(<<"key", "value">>,
                     << <<"Robbery", 30>>, <<"Simple Assault", 50>>, <<"Burglary", 40>> >>)
      [] key = "weapon_type" ->
           DataFrame(<<"key", "value">>,
                     << <<"Knife", 200>>, <<"Firearm", 500>>, <<"Blunt Object", 150>> >>)
      [] key = "victim_relationship" ->
           DataFrame(<<"key", "value">>,
                     << <<"Stranger", 70>>, <<"Acquaintance", 90>> >>)
      [] key = "location_type" ->
           DataFrame(<<"key", "value">>,
                     << <<"Highway", 80>>, <<"Residence", 300>>, <<"Parking Lot", 80>> >>)
      [] key = "victim_ethnicity" ->
           DataFrame(<<"key", "value">>,
                     << <<"Hispanic", 120>>, <<"Not Hispanic", 400>>, <<"Unknown", 60>> >>)
      [] key = "offender_ethnicity" ->
           DataFrame(<<"key", "value">>,
                     << <<"Unknown", 210>>, <<"Hispanic", 100>>, <<"Not Hispanic", 350>> >>)
      [] key = "victim_race" ->
           DataFrame(<<"key", "value">>,
                     << <<"Asian", 20>>, <<"Black", 310>>, <<"White", 420>> >>)
      [] key = "offender_race" ->
           DataFrame(<<"key", "value">>,
                     << <<"White", 380>>, <<"Asian", 15>>, <<"Black", 330>> >>)
      [] key = "victim_sex" ->
           DataFrame(<<"Male", "Female", "Unknown">>, << <<600, 400, 10>> >>)
      [] key = "offender_sex" ->
           DataFrame(<<"Male", "Female", "Unknown">>, << <<700, 250, 40>> >>)

\* lines 55-57: the frame load_data stores under `key`
LoadTable(key) == IF IsSexKey(key) THEN Melt(ReadCsv(key)) ELSE ReadCsv(key)

EmptyDict == [k \in {} |-> <<>>]

Unset == [kind |-> "unset", tables |-> EmptyDict]

NoneValue == [kind |-> "None", tables |-> EmptyDict]

Dict(tables) == [kind |-> "dict", tables |-> tables]

\* data[key] = df
SetItem(tables, key, df) ==
    [k \in (DOMAIN tables) \cup {key} |-> IF k = key THEN df ELSE tables[k]]

\* `if data:`: None and the empty dict are false
Truthy(d) == d.kind = "dict" /\ DOMAIN d.tables # {}

NotCached == [set |-> FALSE, value |-> Unset, msgs |-> <<>>]

\* the dict load_data returns when every file is read
Registry == Dict([k \in Keys |-> LoadTable(k)])

-----------------------------------------------------------------------------
(* The view dispatch, lines 113-167 *)

View(table, kind, title) == [table |-> table, kind |-> kind, title |-> title]

ViewIds == { dataset_options(l) : l \in Labels }

\* a variant that charts ethnicity before race in the demographic views
DispatchViewsSwapped(key) ==
    IF key \in {"offense_linked", "weapon_type", "victim_relationship", "location_type"}
    THEN << View(key, "RankedBar", key) >>
    ELSE IF key = "victim_demographics"
    THEN << View("victim_ethnicity", "RankedBar", "Victim Ethnicity Distribution"),
            View("victim_race", "RankedBar", "Victim Race Distribution"),
            View("victim_sex", "Proportion", "Victim Sex Distribution") >>
    ELSE IF key = "offender_demographics"
    THEN << View("offender_ethnicity", "RankedBar", "Offender Ethnicity Distribution"),
            View("offender_race", "RankedBar", "Offender Race Distribution"),
            View("offender_sex", "Proportion", "Offender Sex Distribution") >>
    ELSE << >>

\* the if/elif chain on selected_key: the tables charted, in order; no
\* branch matches any other value, and nothing is charted for it
DispatchViews(key) ==
    IF key = "offense_linked"
    THEN << View("offense_linked", "RankedBar", "Top 20 Linked Offenses") >>
    ELSE IF key = "weapon_type"
    THEN << View("weapon_type", "RankedBar", "Weapon Types in Offenses") >>
    ELSE IF key = "victim_relationship"
    THEN << View("victim_relationship", "RankedBar", "Victim-Offender Relationships") >>
    ELSE IF key = "location_type"
    THEN << View("location_type", "RankedBar", "Top 20 Crime Locations") >>
    ELSE IF key = "victim_demographics"
    THEN << View("victim_race", "RankedBar", "Victim Race Distribution"),
            View("victim_ethnicity", "RankedBar", "Victim Ethnicity Distribution"),
            View("victim_sex", "Proportion", "Victim Sex Distribution") >>
    ELSE IF key = "offender_demographics"
    THEN << View("offender_race", "RankedBar", "Offender Race Distribution"),
            View("offender_ethnicity", "RankedBar", "Offender Ethnicity Distribution"),
            View("offender_sex", "Proportion", "Offender Sex Distribution") >>
    ELSE << >>

\* one chart of the dispatch: the helper called on data[table]
Plot(view, d, tie) ==
    IF view.kind = "RankedBar"
    THEN plot_bar_chart(d.tables[view.table], tie)
    ELSE plot_pie_chart(d.tables[view.table])

\* lines 113-167 as a function of (selected_key, data): what is shown, whether
\* the warning is shown, the error raised (none is) and `data` afterwards
DispatchOutcome(key, d, ties) ==
    IF Truthy(d)
    THEN LET views == DispatchViews(key)
         IN  [rendered |-> [i \in 1..Len(views) |->
                              [table |-> views[i].table,
                               kind  |-> views[i].kind,
                               title |-> views[i].title,
                               df    |-> Plot(views[i], d, ties[i]).shown]],
              warning  |-> FALSE,
              error    |-> "none",
              data     |-> [d EXCEPT !.tables =
                              [k \in DOMAIN d.tables |->
                                 IF \E i \in 1..Len(views) : views[i].table = k
                                 THEN LET i == CHOOSE i \in 1..Len(views) : views[i].table = k
                                      IN  Plot(views[i], d, ties[i]).stored
                                 ELSE d.tables[k]]]]
    ELSE [rendered |-> << >>, warning |-> TRUE, error |-> "none", data |-> d]


-----------------------------------------------------------------------------
(* The script, run top to bottom on every navigation event *)

FileStates == {"ok", "missing", "unreadable"}

BadFiles(fs) == {k \in Keys : fs[k] # "ok"}

NoFn == [done |-> TRUE]

\* the process starts: the cache is empty, the radio shows its first option
Init ==
    /\ fileState \in {fs \in [Keys -> FileStates] : Cardinality(BadFiles(fs)) <= MaxBad}
    /\ cache = NotCached
    /\ pc = "start"
    /\ idx = 1
    /\ building = EmptyDict
    /\ reads = << >>
    /\ loads = 0
    /\ data = Unset
    /\ choice = DatasetLabels[1]
    /\ selected_key = "unset"
    /\ errors = << >>
    /\ rendered = << >>
    /\ warning = FALSE
    /\ failedOnce = FALSE
    /\ fn = "none"
    /\ arg = << >>
    /\ res = NoFn

\* line 65 with an entry in the cache: the stored value is returned and the
\* messages of the stored call are shown again; the body is not executed
LoadCached ==
    /\ pc = "start"
    /\ cache.set
    /\ data' = cache.value
    /\ errors' = cache.msgs
    /\ pc' = "select"
    /\ UNCHANGED <<fileState, cache, idx, building, reads, loads, choice,
                   selected_key, rendered, warning, failedOnce, fn, arg, res>>

\* line 65 with no entry in the cache: the body of load_data starts
LoadMiss ==
    /\ pc = "start"
    /\ ~cache.set
    /\ loads < MaxLoads
    /\ loads' = loads + 1
    /\ idx' = 1
    /\ building' = EmptyDict
    /\ reads' = << >>
    /\ pc' = "loading"
    /\ UNCHANGED <<fileState, cache, data, choice, selected_key, errors,
                   rendered, warning, failedOnce, fn, arg, res>>

\* lines 52-58: the file is read, reshaped if it is a sex table, and stored
ReadOk ==
    /\ pc = "loading"
    /\ idx <= Len(FileOrder)
    /\ fileState[FileOrder[idx]] = "ok"
    /\ reads' = Append(reads, FileOrder[idx])
    /\ building' = SetItem(building, FileOrder[idx], LoadTable(FileOrder[idx]))
    /\ idx' = idx + 1
    /\ UNCHANGED <<fileState, cache, pc, loads, data, choice, selected_key,
                   errors, rendered, warning, failedOnce, fn, arg, res>>

\* a variant that reports the missing file and goes on with the next one
ReadMissingContinue ==
    /\ pc = "loading"
    /\ idx <= Len(FileOrder)
    /\ fileState[FileOrder[idx]] = "missing"
    /\ reads' = Append(reads, FileOrder[idx])
    /\ errors' = Append(errors, FileName(FileOrder[idx]))
    /\ idx' = idx + 1
    /\ failedOnce' = TRUE
    /\ UNCHANGED <<fileState, cache, pc, building, loads, data, choice,
                   selected_key, rendered, warning, fn, arg, res>>

\* lines 59-61: FileNotFoundError is caught, the file is reported and None is
\* returned; st.cache_data stores the None and the message
ReadMissing ==
    /\ pc = "loading"
    /\ idx <= Len(FileOrder)
    /\ fileState[FileOrder[idx]] = "missing"
    /\ reads' = Append(reads, FileOrder[idx])
    /\ errors' = Append(errors, FileName(FileOrder[idx]))
    /\ cache' = [set |-> TRUE, value |-> NoneValue,
                 msgs |-> <<FileName(FileOrder[idx])>>]
    /\ data' = NoneValue
    /\ failedOnce' = TRUE
    /\ pc' = "select"
    /\ UNCHANGED <<fileState, idx, building, loads, choice, selected_key,
                   rendered, warning, fn, arg, res>>

\* lines 55, 59: read_csv raises something that is no FileNotFoundError (a
\* PermissionError, an EmptyDataError, a ParserError, ...): it is not caught,
\* nothing is cached, line 65 assigns nothing and the script run ends there
ReadRaises ==
    /\ pc = "loading"
    /\ idx <= Len(FileOrder)
    /\ fileState[FileOrder[idx]] = "unreadable"
    /\ reads' = Append(reads, FileOrder[idx])
    /\ failedOnce' = TRUE
    /\ pc' = "crashed"
    /\ UNCHANGED <<fileState, cache, idx, building, loads, data, choice,
                   selected_key, errors, rendered, warning, fn, arg, res>>

\* line 62: every file was read; the dict is returned and cached
LoadReturn ==
    /\ pc = "loading"
    /\ idx > Len(FileOrder)
    /\ cache' = [set |-> TRUE, value |-> Dict(building), msgs |-> errors]
    /\ data' = Dict(building)
    /\ pc' = "select"
    /\ UNCHANGED <<fileState, idx, building, reads, loads, choice, selected_key,
                   errors, rendered, warning, failedOnce, fn, arg, res>>

\* lines 80-81: the radio returns the chosen label
Select ==
    /\ pc = "select"
    /\ selected_key' = dataset_options(choice)
    /\ pc' = "dispatch"
    /\ UNCHANGED <<fileState, cache, idx, building, reads, loads, data, choice,
                   errors, rendered, warning, failedOnce, fn, arg, res>>

\* lines 113-167
Dispatch ==
    /\ pc = "dispatch"
    /\ \E ties \in [1..3 -> TieOrders] :
          LET out == DispatchOutcome(selected_key, data, ties)
          IN  /\ rendered' = out.rendered
              /\ warning' = out.warning
              /\ data' = out.data
    /\ pc' = "done"
    /\ UNCHANGED <<fileState, cache, idx, building, reads, loads, choice,
                   selected_key, errors, failedOnce, fn, arg, res>>

\* the user picks a label in the sidebar (or reloads): the script runs again
Navigate ==
    /\ pc \in {"done", "crashed"}
    /\ \E l \in Labels : choice' = l
    /\ pc' = "start"
    /\ data' = Unset
    /\ selected_key' = "unset"
    /\ errors' = << >>
    /\ rendered' = << >>
    /\ warning' = FALSE
    /\ reads' = << >>
    /\ UNCHANGED <<fileState, cache, idx, building, loads, failedOnce, fn, arg, res>>

\* before a run starts, someone puts a missing or unreadable file in place
SupplyFile ==
    /\ pc = "start"
    /\ \E k \in Keys :
          /\ fileState[k] # "ok"
          /\ fileState' = [fileState EXCEPT ![k] = "ok"]
    /\ UNCHANGED <<cache, pc, idx, building, reads, loads, data, choice,
                   selected_key, errors, rendered, warning, failedOnce, fn, arg, res>>

Next ==
    \/ LoadCached
    \/ LoadMiss
    \/ ReadOk
    \/ ReadMissing
    \/ ReadRaises
    \/ LoadReturn
    \/ Select
    \/ Dispatch
    \/ Navigate
    \/ SupplyFile

Spec == Init /\ [][Next]_vars


-----------------------------------------------------------------------------
(* plot_bar_chart's ranking, the reshape and the dispatch as functions of   *)
(* their inputs                                                             *)

\* a table of m rows whose "key" cells are the row numbers and whose "value"
\* cells repeat with period `mod`: ties, and ties across the cut at TopN
RankInput(m, mod, mul) ==
    DataFrame(<<"key", "value">>, [i \in 1..m |-> <<i, (mul * i) % mod>>])

RankInputs ==
    { RankInput(m, mod, mul) :
        m \in 0..MaxRows, mod \in (1..MaxMod) \cup {MaxRows + 2}, mul \in 1..2 }

WideColumns == <<"Male", "Female", "Unknown", "Not Specified", "Other">>

\* a wide table of n category columns and m rows
WideInput(n, v, m) ==
    DataFrame(SubSeq(WideColumns, 1, n),
              [r \in 1..m |-> [c \in 1..n |-> v[c] + (r - 1)]])

WideInputs ==
    UNION { { WideInput(n, v, m) : v \in [1..n -> 0..MaxVal], m \in 0..2 } :
            n \in 1..Min(MaxCols, Len(WideColumns)) }

\* values of selected_key that are none of the six view ids
OtherIds == {"victim_sex", "no_such_view"}

DispatchInputs ==
    { [selected_key |-> k, data |-> d] :
        k \in ViewIds \cup OtherIds, d \in {Registry, NoneValue} }

InitFn ==
    /\ fileState = [k \in Keys |-> "ok"]
    /\ cache = NotCached
    /\ pc = "start"
    /\ idx = 1
    /\ building = EmptyDict
    /\ reads = << >>
    /\ loads = 0
    /\ data = Unset
    /\ choice = DatasetLabels[1]
    /\ selected_key = "unset"
    /\ errors = << >>
    /\ rendered = << >>
    /\ warning = FALSE
    /\ failedOnce = FALSE
    /\ res = [done |-> FALSE]
    /\ \/ fn = "rank" /\ arg \in RankInputs
       \/ fn = "melt" /\ arg \in WideInputs
       \/ fn = "dispatch" /\ arg \in DispatchInputs

FnFrame ==
    UNCHANGED <<fileState, cache, pc, idx, building, reads, loads, data, choice,
                selected_key, errors, rendered, warning, failedOnce, fn, arg>>

\* line 86 applied to the table
ApplyRank ==
    /\ fn = "rank"
    /\ ~res.done
    /\ \E tie \in TieOrders :
          res' = [done |-> TRUE, out |-> plot_bar_chart(arg, tie).shown]
    /\ FnFrame

\* line 57 applied to the table
ApplyMelt ==
    /\ fn = "melt"
    /\ ~res.done
    /\ res' = [done |-> TRUE, out |-> Melt(arg)]
    /\ FnFrame

\* lines 113-167 applied to (selected_key, data)
ApplyDispatch ==
    /\ fn = "dispatch"
    /\ ~res.done
    /\ \E ties \in [1..3 -> TieOrders] :
          res' = [done |-> TRUE,
                  out  |-> DispatchOutcome(arg.selected_key, arg.data, ties)]
    /\ FnFrame

NextFn ==
    \/ ApplyRank
    \/ ApplyMelt
    \/ ApplyDispatch

SpecFn == InitFn /\ [][NextFn]_vars


-----------------------------------------------------------------------------
(* Properties *)

Last(s) == s[Len(s)]

RECURSIVE SumSeq(_)
SumSeq(s) == IF s = <<>> THEN 0 ELSE Head(s) + SumSeq(Tail(s))

\* load_data's body was executed in this run and the call has ended
LoadEnded == reads # << >> /\ pc \in {"select", "dispatch", "done", "crashed"}

\* C1: load-all-or-nothing. When the call of load_data ends, it has yielded
\* None if some file is missing or unreadable and a dict holding exactly the
\* ten names if none is; the dispatch never sees a dict with fewer names.
C1_LoadAllOrNothing ==
    /\ LoadEnded =>
          IF BadFiles(fileState) # {}
          THEN data = NoneValue
          ELSE data.kind = "dict" /\ DOMAIN data.tables = Keys
    /\ (pc \in {"dispatch", "done"} /\ data.kind = "dict") =>
          DOMAIN data.tables = Keys

\* C2: ranking correctness. The ranked view of a table of m rows has
\* min(m, 20) rows, each a row of the table, taken once; adjacent rows are in
\* descending order of count; no row left out has a count strictly greater
\* than a row kept.
C2_RankingCorrect ==
    (fn = "rank" /\ res.done) =>
        LET m   == Len(arg.rows)
            out == res.out
            k   == Len(out.rows)
            cnt == Column(out, "value")
            all == Column(arg, "value")
            kept == { out.index[p] + 1 : p \in 1..k }
        IN  /\ k = Min(m, 20)
            /\ Len(out.index) = k
            /\ out.columns = arg.columns
            /\ \A p \in 1..k : out.index[p] + 1 \in 1..m
                               /\ out.rows[p] = arg.rows[out.index[p] + 1]
            /\ \A p, q \in 1..k : out.index[p] = out.index[q] => p = q
            /\ \A p \in 1..(k - 1) : cnt[p] >= cnt[p + 1]
            /\ \A i \in (1..m) \ kept : \A p \in 1..k : ~(all[i] > cnt[p])

\* a table of more than 20 rows was ranked, rows were cut, and the input was
\* not in descending order
C2_Witness ==
    /\ fn = "rank" /\ res.done
    /\ Len(arg.rows) > 20
    /\ Len(res.out.rows) = 20
    /\ \E i \in 1..(Len(arg.rows) - 1) : arg.rows[i][2] < arg.rows[i + 1][2]

\* C3: reshape correctness. A wide table of columns c_1..c_n with one row
\* v_1..v_n is reshaped to the n rows (c_i, v_i), in column order, under the
\* columns Category and Count, and the Count column sums to v_1 + ... + v_n.
C3_ReshapeCorrect ==
    (fn = "melt" /\ res.done /\ Len(arg.rows) = 1) =>
        LET n   == Len(arg.columns)
            out == res.out
        IN  /\ out.columns = <<"Category", "Count">>
            /\ Len(out.rows) = n
            /\ \A i \in 1..n : out.rows[i] = <<arg.columns[i], arg.rows[1][i]>>
            /\ SumSeq(Column(out, "Count")) = SumSeq(arg.rows[1])

\* a one-row table of three columns with different counts was reshaped
C3_Witness ==
    /\ fn = "melt" /\ res.done
    /\ Len(arg.rows) = 1
    /\ Len(arg.columns) = 3
    /\ arg.rows[1][1] # arg.rows[1][3]
    /\ Len(res.out.rows) = 3

TableKinds(r) == [i \in 1..Len(r) |-> <<r[i].table, r[i].kind>>]

\* C5: demographic composition. With data loaded, victim_demographics and
\* offender_demographics render the race table as RankedBar, the ethnicity
\* table as RankedBar and the sex table as Proportion, in this order; each of
\* the four other view ids renders the table of its name as RankedBar.
C5_DemographicComposition ==
    (pc = "done" /\ data.kind = "dict") =>
        TableKinds(rendered) =
            CASE selected_key = "victim_demographics" ->
                   << <<"victim_race", "RankedBar">>,
                      <<"victim_ethnicity", "RankedBar">>,
                      <<"victim_sex", "Proportion">> >>
              [] selected_key = "offender_demographics" ->
                   << <<"offender_race", "RankedBar">>,
                      <<"offender_ethnicity", "RankedBar">>,
                      <<"offender_sex", "Proportion">> >>
              [] selected_key \in {"offense_linked", "weapon_type",
                                   "victim_relationship", "location_type"} ->
                   << <<selected_key, "RankedBar">> >>

\* the offender demographics were rendered from loaded data
C5_Witness ==
    /\ pc = "done"
    /\ data.kind = "dict"
    /\ selected_key = "offender_demographics"
    /\ Len(rendered) = 3

\* C6: degraded state. A run whose load ended in failure shows the warning
\* and no chart or table; a run whose load succeeded does not show the
\* warning.
C6_DegradedState ==
    pc \in {"done", "crashed"} =>
        /\ data.kind # "dict" => (warning /\ rendered = << >>)
        /\ data.kind = "dict" => ~warning

\* C7: ranking stability. Rows of equal count that are kept are in input
\* order, and of the rows whose count ties across the cut the earlier ones
\* are kept.
C7_RankingStable ==
    (fn = "rank" /\ res.done) =>
        LET m   == Len(arg.rows)
            out == res.out
            k   == Len(out.rows)
            cnt == Column(out, "value")
            all == Column(arg, "value")
            kept == { out.index[p] + 1 : p \in 1..k }
        IN  /\ \A p, q \in 1..k :
                  (p < q /\ cnt[p] = cnt[q]) => out.index[p] < out.index[q]
            /\ \A i \in (1..m) \ kept : \A p \in 1..k :
                  all[i] = cnt[p] => out.index[p] + 1 < i

\* C8: fail-fast load order. The files are read in the order of the mapping;
\* no file is read after one that is not there; at the first missing file
\* load_data reports that file's name and returns None.
C8_FailFast ==
    (reads # << >> /\ pc \in {"loading", "select", "dispatch", "done"}) =>
        /\ reads = SubSeq(FileOrder, 1, Len(reads))
        /\ \A i \in 1..(Len(reads) - 1) : fileState[reads[i]] = "ok"
        /\ fileState[Last(reads)] = "missing" =>
              /\ pc # "loading"
              /\ data = NoneValue
              /\ errors = <<FileName(Last(reads))>>

\* load_data returned None at a missing file that is neither the first nor
\* the last of the order, with another missing file after it
C8_Witness ==
    /\ pc = "select"
    /\ data = NoneValue
    /\ Len(reads) > 1
    /\ \E j \in (Len(reads) + 1)..Len(FileOrder) : fileState[FileOrder[j]] = "missing"

\* C9: Registry immutability. In every run after a successful load, the
\* tables of `data` and of the cached value are the tables load_data built:
\* same columns, same rows, same row order.
C9_RegistryImmutable ==
    data.kind = "dict" =>
        /\ data.tables = building
        /\ cache.value.tables = building
        /\ building = Registry.tables

\* after a navigation, a ranked bar chart showed rows in another order than
\* the stored table's
C9_Witness ==
    /\ pc = "done"
    /\ data.kind = "dict"
    /\ selected_key = "offender_demographics"
    /\ rendered[1].df.rows # data.tables["offender_race"].rows

\* C10: exactly-once load. The body of load_data is executed at most once in
\* a process, and once a call has failed no later run holds a Registry.
C10_ExactlyOnceLoad ==
    /\ loads <= 1
    /\ failedOnce => data.kind # "dict"

====
